---- MODULE Spec2Model ----
(***************************************************************************)
(* A model of pandasai.dataset_loader.DatasetLoader: the load pipeline     *)
(* (schema read, source-type validation, cache path, freshness decision,   *)
(* cache read, source dispatch, query construction, transformations, cache *)
(* write) over a small file system, a clock and an external source.        *)
(*                                                                         *)
(* Time is counted in days of the local wall clock: datetime.now() and     *)
(* datetime.fromtimestamp(mtime) are both naive local datetimes.           *)
(* Names, paths and queries are strings; the string values of table cells  *)
(* are sequences of one-character strings, so that rsplit can be computed. *)
(***************************************************************************)
EXTENDS Integers, Sequences, FiniteSets, TLC

(***************************************************************************)
(* Bounds of the model                                                     *)
(***************************************************************************)
\* the clock runs from day 0 to day MaxClock
MaxClock == 8
\* how many times the schema documents are edited from outside
MaxEdits == 1
\* the longest string handed to _anonymize on its own
MaxChars == 5

(***************************************************************************)
(* Program constants                                                       *)
(***************************************************************************)
\* timedelta(weeks=1), in days
Week == 7

\* DatasetLoader.SUPPORTED_SOURCES
SUPPORTED_SOURCES ==
    [mysql         |-> "pandasai_sql",
     postgres      |-> "pandasai_sql",
     yahoo_finance |-> "pandasai.connectors.yfinance",
     bigquery      |-> "pandasai.ee.connectors.bigquery",
     snowflake     |-> "pandasai.ee.connectors.snowflake",
     databricks    |-> "pandasai.ee.connectors.databricks",
     oracle        |-> "pandasai.ee.connectors.oracle"]

\* Python's None: for the schema field, and for the dataset_path field
None == [none |-> TRUE]
NoPath == "<None>"

(***************************************************************************)
(* Strings                                                                 *)
(***************************************************************************)
RECURSIVE Join(_, _)
\* sep.join(parts), for a sequence of strings
Join(sep, parts) ==
    IF Len(parts) = 0 THEN ""
    ELSE IF Len(parts) = 1 THEN parts[1]
    ELSE parts[1] \o sep \o Join(sep, Tail(parts))

\* os.path.isabs, for the path strings in use
IsAbsolute(part) == part \in {"/var/cache/sales.parquet"}

RECURSIVE JoinOnto(_, _)
\* the loop of os.path.join: an absolute segment drops what was joined before
\* it, any other segment is added after a separator
JoinOnto(path, parts) ==
    IF Len(parts) = 0 THEN path
    ELSE JoinOnto(IF IsAbsolute(Head(parts)) THEN Head(parts)
                  ELSE IF path = "" THEN Head(parts)
                  ELSE path \o "/" \o Head(parts),
                  Tail(parts))

\* os.path.join(parts[1], parts[2], ...)
PathJoin(parts) == JoinOnto(Head(parts), Tail(parts))

\* str.capitalize() of the source types in use
Capitalize(s) ==
    CASE s = "mysql"         -> "Mysql"
      [] s = "postgres"      -> "Postgres"
      [] s = "yahoo_finance" -> "Yahoo_finance"
      [] s = "bigquery"      -> "Bigquery"
      [] s = "snowflake"     -> "Snowflake"
      [] s = "databricks"    -> "Databricks"
      [] s = "oracle"        -> "Oracle"
      [] OTHER               -> s

(***************************************************************************)
(* Table cells and tables.  A table maps each column name to the sequence  *)
(* of its cells, one per row.                                              *)
(***************************************************************************)
Str(chars) == [kind |-> "str", chars |-> chars]
Ts(at, tz) == [kind |-> "ts", at |-> at, tz |-> tz]
Num(n)     == [kind |-> "int", n |-> n]

\* what the external source can hand back for a query
SourceTables ==
    { [email  |-> << Str(<<"a", "@", "x">>), Str(<<"b", "o", "b">>) >>,
       signup |-> << Ts(1, "UTC"), Ts(2, "UTC") >>],
      [email  |-> << Str(<<"a", "@", "b", "@", "x">>) >>,
       signup |-> << Ts(1, "naive") >>] }

\* the errors a backend raises while it runs a query
BackendErrors ==
    { [exc |-> "OperationalError", msg |-> "connection refused", arg |-> <<>>, cause |-> <<>>],
      [exc |-> "ImportError", msg |-> "cannot import name 'create_engine'", arg |-> <<>>, cause |-> <<>>],
      [exc |-> "ModuleNotFoundError", msg |-> "No module named 'pymysql'", arg |-> <<>>, cause |-> <<>>] }

\* isinstance(e, ImportError): ModuleNotFoundError is a subclass of ImportError
IsImportError(e) == e.exc \in {"ImportError", "ModuleNotFoundError"}

(***************************************************************************)
(* Schemas.  A schema is the mapping yaml.safe_load returns; an optional   *)
(* key that is not declared is not in its DOMAIN.                          *)
(***************************************************************************)
NoKeys == [k \in {} |-> k]

\* an order_by value is a YAML scalar or a YAML sequence
Scalar(s) == [scalar |-> s]
List(seq) == [list |-> seq]
IsList(v) == "list" \in DOMAIN v

Anonymize(col)         == [type |-> "anonymize", params |-> [column |-> col]]
ConvertTimezone(col, t) == [type |-> "convert_timezone", params |-> [column |-> col, to |-> t]]
Uppercase(col)         == [type |-> "uppercase", params |-> [column |-> col]]

\* f @@ g has the keys of both and, for a key of both, the value of f
MkSchema(type, dest, freq, queryKeys, transKeys) ==
    queryKeys @@ freq @@ transKeys @@
    [source      |-> [type |-> type, table |-> "customers",
                      connection |-> [host |-> "db"]],
     columns     |-> << [name |-> "email"], [name |-> "signup"] >>,
     destination |-> dest]

SourceTypes == {"mysql", "snowflake", "mongodb"}
Destinations ==
    { [format |-> f] : f \in {"parquet", "csv", "json"} }
    \cup { [format |-> f, path |-> "out.bin"] : f \in {"parquet", "csv", "json"} }
Frequencies ==
    { NoKeys, [update_frequency |-> "weekly"], [update_frequency |-> "daily"] }
QueryKeys ==
    { cols @@ ob @@ lim :
        cols \in { NoKeys, [columns |-> << [name |-> "signup"] >>] },
        ob \in { NoKeys, [order_by |-> Scalar("email")], [order_by |-> List(<<"email">>)],
                 [order_by |-> List(<<"signup", "email">>)] },
        lim \in { NoKeys, [limit |-> 10] } }
TransformationKeys ==
    { NoKeys,
      [transformations |-> << Anonymize("email") >>],
      [transformations |-> << ConvertTimezone("signup", "UTC"), ConvertTimezone("signup", "EST") >>],
      [transformations |-> << ConvertTimezone("signup", "EST"), ConvertTimezone("signup", "UTC") >>],
      [transformations |-> << Uppercase("email"), Anonymize("email") >>],
      [transformations |-> << Anonymize("phone") >>] }

DefaultDest  == [format |-> "parquet"]
DefaultFreq  == [update_frequency |-> "weekly"]
DefaultTrans == [transformations |-> << Anonymize("email") >>]

\* the schema documents a dataset can start with
Schemas ==
    { MkSchema(t, d, f, NoKeys, DefaultTrans) :
        t \in SourceTypes, d \in Destinations, f \in Frequencies }
    \cup { MkSchema("mysql", DefaultDest, DefaultFreq, q, NoKeys) : q \in QueryKeys }
    \cup { MkSchema("mysql", DefaultDest, DefaultFreq, NoKeys, t) : t \in TransformationKeys }
    \cup { MkSchema("mysql", [format |-> "parquet", path |-> "/var/cache/sales.parquet"],
                    DefaultFreq, NoKeys, DefaultTrans) }

(***************************************************************************)
(* Errors.  An error is the exception class, its message, the values the   *)
(* message names, and the exception it was raised from (at most one).      *)
(***************************************************************************)
Error(exc, msg, arg) == [exc |-> exc, msg |-> msg, arg |-> arg, cause |-> <<>>]
ErrorFrom(exc, msg, arg, e) == [exc |-> exc, msg |-> msg, arg |-> arg, cause |-> <<e>>]

\* what a call has produced: nothing yet, a table, or a raised error
NoResult      == [kind |-> "none"]
Returned(t)   == [kind |-> "table", table |-> t]
Raised(e)     == [kind |-> "error", error |-> e]

(***************************************************************************)
(* The pure functions of the loader                                        *)
(***************************************************************************)
\* _load_schema, line 43
SchemaPath(dataset_path) == PathJoin(<<"datasets", dataset_path, "schema.yaml">>)

\* _get_cache_file_path
GetCacheFilePath(schema, dataset_path) ==
    IF "path" \in DOMAIN schema.destination
    THEN PathJoin(<<"datasets", dataset_path, schema.destination.path>>)
    ELSE LET file_extension ==
                 IF schema.destination.format = "parquet" THEN "parquet" ELSE "csv"
         IN  PathJoin(<<"datasets", dataset_path, "data." \o file_extension>>)

\* faulty variant: an artifact exactly one week old still counts as fresh
WithinWeek_Inclusive(file_mtime, now) == file_mtime >= now - Week

\* the comparison of _is_cache_valid, line 74: file_mtime > now - timedelta(weeks=1)
WithinWeek(file_mtime, now) == file_mtime > now - Week

\* faulty variant: LIMIT is appended before ORDER BY
GenerateQuery_LimitFirst(schema) ==
    LET columns == Join(", ", [i \in 1..Len(schema.columns) |-> schema.columns[i].name])
        q0 == "SELECT " \o columns \o " FROM " \o schema.source.table
        q1 == IF "limit" \in DOMAIN schema
              THEN q0 \o " LIMIT " \o ToString(schema.limit) ELSE q0
    IN  IF "order_by" \in DOMAIN schema
        THEN q1 \o " ORDER BY " \o (IF IsList(schema.order_by)
                                    THEN Join(", ", schema.order_by.list)
                                    ELSE schema.order_by.scalar)
        ELSE q1

\* _generate_query
GenerateQuery(schema) ==
    LET columns    == Join(", ", [i \in 1..Len(schema.columns) |-> schema.columns[i].name])
        table_name == schema.source.table
        q0 == "SELECT " \o columns \o " FROM " \o table_name
        q1 == IF "order_by" \in DOMAIN schema
              THEN LET order_by == schema.order_by
                       order_by_clause ==
                           IF IsList(order_by) THEN Join(", ", order_by.list)
                           ELSE order_by.scalar
                   IN  q0 \o " ORDER BY " \o order_by_clause
              ELSE q0
        q2 == IF "limit" \in DOMAIN schema
              THEN q1 \o " LIMIT " \o ToString(schema.limit)
              ELSE q1
    IN  q2

\* hashlib.md5(local.encode()).hexdigest(), cut to its first four hex digits
Md5Hex(local) ==
    CASE local = <<"a">>           -> <<"0", "c", "c", "1">>
      [] local = <<"b", "o", "b">> -> <<"9", "f", "9", "d">>
      [] local = <<"a", "@", "b">> -> <<"a", "1", "c", "a">>
      [] OTHER                     -> <<"d", "4", "1", "d">>

\* faulty variant: the index of the first "@", as value.split("@", 1) would cut
LastAt_First(chars) ==
    LET at == { i \in 1..Len(chars) : chars[i] = "@" }
    IN  IF at = {} THEN 0 ELSE CHOOSE i \in at : \A j \in at : i <= j

\* the largest index of "@" in chars, 0 when there is none
LastAt(chars) ==
    LET at == { i \in 1..Len(chars) : chars[i] = "@" }
    IN  IF at = {} THEN 0 ELSE CHOOSE i \in at : \A j \in at : j <= i

\* _anonymize
AnonymizeValue(value) ==
    IF value.kind # "str" \/ LastAt(value.chars) = 0
    THEN value
    ELSE LET k      == LastAt(value.chars)
             local  == SubSeq(value.chars, 1, k - 1)
             domain == SubSeq(value.chars, k + 1, Len(value.chars))
         IN  Str(Md5Hex(local) \o <<"@">> \o domain)

\* pd.to_datetime(column).dt.tz_convert(to): the error it raises, if any
TzConvertError(column) ==
    IF \E i \in 1..Len(column) : column[i].kind = "str"
    THEN <<Error("ValueError", "Unknown datetime string format", <<>>)>>
    ELSE IF \E i \in 1..Len(column) : column[i].kind = "int" \/ column[i].tz = "naive"
    THEN <<Error("TypeError", "Cannot convert tz-naive timestamps, use tz_localize to localize", <<>>)>>
    ELSE <<>>

TzConvert(column, to) == [i \in 1..Len(column) |-> Ts(column[i].at, to)]

\* faulty variant: an entry of a type that is not known is rejected
ApplyOne_RejectsUnknown(transform, r) ==
    IF r.kind = "error" THEN r
    ELSE LET df  == r.table
             col == transform.params.column
         IN  IF transform.type = "anonymize"
             THEN IF col \notin DOMAIN df
                  THEN Raised(Error("KeyError", col, <<>>))
                  ELSE Returned([df EXCEPT ![col] =
                                    [i \in 1..Len(df[col]) |-> AnonymizeValue(df[col][i])]])
             ELSE IF transform.type = "convert_timezone"
             THEN IF col \notin DOMAIN df
                  THEN Raised(Error("KeyError", col, <<>>))
                  ELSE IF TzConvertError(df[col]) # <<>>
                  THEN Raised(TzConvertError(df[col])[1])
                  ELSE Returned([df EXCEPT ![col] = TzConvert(df[col], transform.params.to)])
             ELSE Raised(Error("ValueError", "Unknown transformation type", <<transform.type>>))

\* one pass of the loop of _apply_transformations: the table after `transform`,
\* or the error the pass raises
ApplyOne(transform, r) ==
    IF r.kind = "error" THEN r
    ELSE LET df  == r.table
             col == transform.params.column
         IN  IF transform.type = "anonymize"
             THEN IF col \notin DOMAIN df
                  THEN Raised(Error("KeyError", col, <<>>))
                  ELSE Returned([df EXCEPT ![col] =
                                    [i \in 1..Len(df[col]) |-> AnonymizeValue(df[col][i])]])
             ELSE IF transform.type = "convert_timezone"
             THEN IF col \notin DOMAIN df
                  THEN Raised(Error("KeyError", col, <<>>))
                  ELSE IF TzConvertError(df[col]) # <<>>
                  THEN Raised(TzConvertError(df[col])[1])
                  ELSE Returned([df EXCEPT ![col] = TzConvert(df[col], transform.params.to)])
             ELSE r

RECURSIVE ApplyAll_Reversed(_, _)
\* faulty variant: the entries are applied last to first
ApplyAll_Reversed(transforms, r) ==
    IF Len(transforms) = 0 THEN r
    ELSE ApplyOne(Head(transforms), ApplyAll_Reversed(Tail(transforms), r))

RECURSIVE ApplyAll(_, _)
\* the loop of _apply_transformations, first entry first
ApplyAll(transforms, r) ==
    IF Len(transforms) = 0 THEN r
    ELSE ApplyAll(Tail(transforms), ApplyOne(Head(transforms), r))

\* _apply_transformations: schema.get("transformations", [])
ApplyTransformations(schema, df) ==
    LET transforms == IF "transformations" \in DOMAIN schema
                      THEN schema.transformations ELSE <<>>
    IN  ApplyAll(transforms, Returned(df))

(***************************************************************************)
(* The cache codecs.  Parquet keeps the cells as they are; CSV stores text *)
(* and read_csv infers integers back but leaves timestamps as strings.     *)
(***************************************************************************)
TsText(c) == Str(<<"T", ToString(c.at), c.tz>>)

CsvCell(c) == IF c.kind = "ts" THEN TsText(c) ELSE c

\* faulty variant: the CSV artifact carries the index, which read_csv gives
\* back as one more column
Decode_WithIndex(enc, table) ==
    IF enc = "csv"
    THEN [col \in DOMAIN table \cup {"Unnamed: 0"} |->
             IF col \in DOMAIN table
             THEN [i \in 1..Len(table[col]) |-> CsvCell(table[col][i])]
             ELSE [i \in 1..Len(table[CHOOSE k \in DOMAIN table : TRUE]) |-> Num(i - 1)]]
    ELSE table

\* what read_<format> gives for what to_<format> stored
Decode(enc, table) ==
    IF enc = "csv"
    THEN [col \in DOMAIN table |-> [i \in 1..Len(table[col]) |-> CsvCell(table[col][i])]]
    ELSE table

NoFile == [exists |-> FALSE]
Artifact(enc, table, mtime) ==
    [exists |-> TRUE, enc |-> enc, table |-> table, mtime |-> mtime]

\* _read_cache on an existing file
ReadCache(schema, file) ==
    LET cache_format == schema.destination.format
    IN  IF cache_format \in {"parquet", "csv"}
        THEN IF file.enc = cache_format
             THEN Returned(Decode(cache_format, file.table))
             ELSE Raised(Error("ParserError", "not a " \o cache_format \o " file", <<>>))
        ELSE Raised(Error("ValueError", "Unsupported cache format", <<cache_format>>))

\* faulty variant: a format that is not parquet is written as CSV, as the file
\* extension of the default path has it
CacheData_ElseCsv(schema, df, now) ==
    [ok |-> TRUE,
     file |-> Artifact(IF schema.destination.format = "parquet" THEN "parquet" ELSE "csv",
                       df, now)]

\* faulty variant: the write leaves the artifact with the timestamp of day 0
\* instead of the time of the write
CacheData_OldStamp(schema, df, now) ==
    LET cache_format == schema.destination.format
    IN  IF cache_format \in {"parquet", "csv"}
        THEN [ok |-> TRUE, file |-> Artifact(cache_format, df, 0)]
        ELSE [ok |-> FALSE,
              error |-> Error("ValueError", "Unsupported cache format", <<cache_format>>)]

\* _cache_data: the file written, or the error raised
CacheData(schema, df, now) ==
    LET cache_format == schema.destination.format
    IN  IF cache_format \in {"parquet", "csv"}
        THEN [ok |-> TRUE, file |-> Artifact(cache_format, df, now)]
        ELSE [ok |-> FALSE,
              error |-> Error("ValueError", "Unsupported cache format", <<cache_format>>)]

(***************************************************************************)
(* The state                                                               *)
(***************************************************************************)
Datasets == {"sales", "hr"}
Callers  == {"c1", "c2"}

\* what an edit from outside can put in place of a schema document
EditChoices ==
    { MkSchema("mysql", DefaultDest, DefaultFreq, NoKeys,
               [transformations |-> << ConvertTimezone("signup", "EST") >>]),
      MkSchema("mongodb", DefaultDest, DefaultFreq, NoKeys, DefaultTrans),
      MkSchema("mysql", [format |-> "json", path |-> "data.parquet"], DefaultFreq,
               NoKeys, DefaultTrans) }

AllSchemas  == Schemas \cup EditChoices
SchemaPaths == { SchemaPath(d) : d \in Datasets }
CachePaths  == { GetCacheFilePath(s, d) : s \in AllSchemas, d \in Datasets }

NoDocument  == [exists |-> FALSE]
Document(s) == [exists |-> TRUE, doc |-> s]

VARIABLES
    clock,        \* datetime.now(), in days
    schemaStore,  \* schema path -> the schema document stored there, if any
    cacheFiles,   \* cache path -> the cache artifact stored there, if any
    loader,       \* the fields of the DatasetLoader instance: schema, dataset_path
    call,         \* caller -> its load call: position, locals, result, what it did
    edits         \* how many edits of schema documents have happened

vars == <<clock, schemaStore, cacheFiles, loader, call, edits>>

\* a caller that is not inside load
Idle ==
    [pc |-> "idle", arg |-> NoPath, cache_file |-> NoPath, query |-> "",
     source_type |-> "", df |-> NoResult, result |-> NoResult,
     readSchema |-> None, observed |-> <<>>, judged |-> "none", deployment |-> "",
     fetched |-> NoResult, raisedByBackend |-> <<>>, ops |-> {},
     before |-> [p \in CachePaths |-> NoFile],
     used |-> {}, touched |-> {}, invocations |-> 0, writes |-> 0,
     overlapped |-> FALSE]

Init ==
    /\ clock = 0
    /\ \E s \in Schemas :
         schemaStore =
             [p \in SchemaPaths |->
                 IF p = SchemaPath("sales") THEN Document(s) ELSE NoDocument]
    /\ cacheFiles = [p \in CachePaths |-> NoFile]
    /\ loader = [schema |-> None, dataset_path |-> NoPath]
    /\ call = [c \in Callers |-> Idle]
    /\ edits = 0

Did(c, op)  == op \in call[c].ops
Note(c, op) == call[c].ops \cup {op}

\* the schemas the steps of the call have worked with, self.schema included
Use(c) == call[c].used \cup {loader.schema}

\* the cache paths the call has handed to os.path.exists, to the reader and
\* to the writer
Touch(c, op) == call[c].touched \cup {<<op, call[c].cache_file>>}

\* inside load: called and not yet returned or raised
Running(c) == call[c].pc \notin {"idle", "done"}

\* the call ends by raising e
Raise(c, e) == [call[c] EXCEPT !.pc = "done", !.result = Raised(e)]

(***************************************************************************)
(* load, step by step                                                      *)
(***************************************************************************)
\* load, line 27: self.dataset_path = dataset_path
StartLoad(c, d) ==
    /\ call[c].pc = "idle"
    /\ loader' = [loader EXCEPT !.dataset_path = d]
    /\ call' = [o \in Callers |->
                   IF o = c
                   THEN [Idle EXCEPT !.pc = "load_schema", !.arg = d, !.before = cacheFiles,
                                     !.overlapped = \E x \in Callers \ {c} : Running(x)]
                   ELSE IF Running(o) THEN [call[o] EXCEPT !.overlapped = TRUE]
                   ELSE call[o]]
    /\ UNCHANGED <<clock, schemaStore, cacheFiles, edits>>

\* faulty variant: with no schema document, the schema an earlier call left in the
\* loader is used
LoadSchema_KeepsOld(c) ==
    /\ call[c].pc = "load_schema"
    /\ LET schema_path == SchemaPath(loader.dataset_path)
       IN  IF ~schemaStore[schema_path].exists
           THEN IF loader.schema = None
                THEN call' = [call EXCEPT ![c] =
                                 Raise(c, Error("FileNotFoundError", "Schema file not found",
                                                <<schema_path>>))]
                ELSE call' = [call EXCEPT ![c].pc = "validate",
                                          ![c].readSchema = loader.schema,
                                          ![c].ops = Note(c, "schema_read")]
           ELSE call' = [call EXCEPT ![c].pc = "validate",
                                     ![c].readSchema = schemaStore[schema_path].doc,
                                     ![c].ops = Note(c, "schema_read")]
    /\ loader' = IF schemaStore[SchemaPath(loader.dataset_path)].exists
                 THEN [loader EXCEPT !.schema = schemaStore[SchemaPath(loader.dataset_path)].doc]
                 ELSE loader
    /\ UNCHANGED <<clock, schemaStore, cacheFiles, edits>>

\* faulty variant: a schema already in the loader is kept, and the document is
\* read only when the loader has none
LoadSchema_Once(c) ==
    /\ call[c].pc = "load_schema"
    /\ LET schema_path == SchemaPath(loader.dataset_path)
       IN  IF loader.schema # None
           THEN /\ call' = [call EXCEPT ![c].pc = "validate",
                                        ![c].readSchema = loader.schema,
                                        ![c].ops = Note(c, "schema_read")]
                /\ UNCHANGED loader
           ELSE IF ~schemaStore[schema_path].exists
           THEN /\ call' = [call EXCEPT ![c] =
                               Raise(c, Error("FileNotFoundError", "Schema file not found",
                                              <<schema_path>>))]
                /\ UNCHANGED loader
           ELSE /\ loader' = [loader EXCEPT !.schema = schemaStore[schema_path].doc]
                /\ call' = [call EXCEPT ![c].pc = "validate",
                                        ![c].readSchema = schemaStore[schema_path].doc,
                                        ![c].ops = Note(c, "schema_read")]
    /\ UNCHANGED <<clock, schemaStore, cacheFiles, edits>>

\* _load_schema
LoadSchema(c) ==
    /\ call[c].pc = "load_schema"
    /\ LET schema_path == SchemaPath(loader.dataset_path)
       IN  IF ~schemaStore[schema_path].exists
           THEN /\ call' = [call EXCEPT ![c] =
                               Raise(c, Error("FileNotFoundError", "Schema file not found",
                                              <<schema_path>>))]
                /\ UNCHANGED loader
           ELSE /\ loader' = [loader EXCEPT !.schema = schemaStore[schema_path].doc]
                /\ call' = [call EXCEPT ![c].pc = "validate",
                                        ![c].readSchema = schemaStore[schema_path].doc,
                                        ![c].ops = Note(c, "schema_read")]
    /\ UNCHANGED <<clock, schemaStore, cacheFiles, edits>>

\* faulty variant: the source type is not checked before the cache is consulted
ValidateSourceType_Unchecked(c) ==
    /\ call[c].pc = "validate"
    /\ call' = [call EXCEPT ![c].pc = "cache_path"]
    /\ UNCHANGED <<clock, schemaStore, cacheFiles, loader, edits>>

\* _validate_source_type
ValidateSourceType(c) ==
    /\ call[c].pc = "validate"
    /\ LET source_type == loader.schema.source.type
       IN  IF source_type \notin DOMAIN SUPPORTED_SOURCES
           THEN call' = [call EXCEPT ![c] =
                            [Raise(c, Error("ValueError", "Unsupported database type",
                                            <<source_type>>))
                                EXCEPT !.used = Use(c)]]
           ELSE call' = [call EXCEPT ![c].pc = "cache_path", ![c].used = Use(c)]
    /\ UNCHANGED <<clock, schemaStore, cacheFiles, loader, edits>>

\* load, line 31: cache_file = self._get_cache_file_path()
CachePath(c) ==
    /\ call[c].pc = "cache_path"
    /\ call' = [call EXCEPT ![c].pc = "is_cache_valid",
                            ![c].cache_file = GetCacheFilePath(loader.schema, loader.dataset_path),
                            ![c].ops = Note(c, "cache_path"),
                            ![c].used = Use(c)]
    /\ UNCHANGED <<clock, schemaStore, cacheFiles, loader, edits>>

\* _is_cache_valid, and the branch of load on its result (line 33)
IsCacheValid(c) ==
    /\ call[c].pc = "is_cache_valid"
    /\ LET file  == cacheFiles[call[c].cache_file]
           noted == [call[c] EXCEPT
                        !.ops = Note(c, "cache_exists"),
                        !.touched = Touch(c, "exists"),
                        !.used = IF file.exists THEN Use(c) ELSE call[c].used,
                        !.observed = IF file.exists
                                     THEN <<[exists |-> TRUE, file_mtime |-> file.mtime,
                                             now |-> clock]>>
                                     ELSE <<[exists |-> FALSE]>>]
           stale == [noted EXCEPT !.pc = "load_from_source", !.judged = "STALE"]
           valid == [noted EXCEPT !.pc = "read_cache", !.judged = "VALID"]
       IN  IF ~file.exists
           THEN call' = [call EXCEPT ![c] = stale]
           ELSE IF "update_frequency" \notin DOMAIN loader.schema
           THEN call' = [call EXCEPT ![c] =
                            [noted EXCEPT !.pc = "done",
                                          !.result = Raised(Error("KeyError", "update_frequency", <<>>))]]
           ELSE IF loader.schema.update_frequency = "weekly"
           THEN call' = [call EXCEPT ![c] =
                            IF WithinWeek(file.mtime, clock) THEN valid ELSE stale]
           ELSE call' = [call EXCEPT ![c] = stale]
    /\ UNCHANGED <<clock, schemaStore, cacheFiles, loader, edits>>

\* faulty variant: reading the artifact renews its modification time
ReadCacheStep_Touches(c) ==
    /\ call[c].pc = "read_cache"
    /\ LET r == ReadCache(loader.schema, cacheFiles[call[c].cache_file])
       IN  call' = [call EXCEPT
                       ![c].pc = "done",
                       ![c].result = r,
                       ![c].used = Use(c),
                       ![c].touched = IF loader.schema.destination.format \in {"parquet", "csv"}
                                      THEN Touch(c, "read") ELSE call[c].touched,
                       ![c].ops = IF loader.schema.destination.format \in {"parquet", "csv"}
                                  THEN Note(c, "cache_read") ELSE call[c].ops]
    /\ cacheFiles' = [cacheFiles EXCEPT ![call[c].cache_file].mtime = clock]
    /\ UNCHANGED <<clock, schemaStore, loader, edits>>

\* load, line 34: return self._read_cache(cache_file)
ReadCacheStep(c) ==
    /\ call[c].pc = "read_cache"
    /\ LET r == ReadCache(loader.schema, cacheFiles[call[c].cache_file])
       IN  call' = [call EXCEPT
                       ![c].pc = "done",
                       ![c].result = r,
                       ![c].used = Use(c),
                       ![c].touched = IF loader.schema.destination.format \in {"parquet", "csv"}
                                      THEN Touch(c, "read") ELSE call[c].touched,
                       ![c].ops = IF loader.schema.destination.format \in {"parquet", "csv"}
                                  THEN Note(c, "cache_read") ELSE call[c].ops]
    /\ UNCHANGED <<clock, schemaStore, cacheFiles, loader, edits>>

\* the ImportError that the except clause of _load_from_source raises from e
ConnectorNotFound(source_type, module_name, e) ==
    ErrorFrom("ImportError", "connector not found. Please install the library.",
              <<Capitalize(source_type), module_name>>, e)

\* what the except clause of _load_from_source makes of an exception raised in
\* the try block
ExceptImportError(source_type, module_name, e) ==
    IF IsImportError(e) THEN ConnectorNotFound(source_type, module_name, e) ELSE e

\* the name getattr looks up in the backend module
BackendAttribute(source_type) ==
    IF source_type \in {"mysql", "postgres"}
    THEN "load_from_" \o source_type
    ELSE Capitalize(source_type) \o "Connector"

\* _load_from_source, lines 88-102: the query, the import of the backend module
\* and the lookup of its entry point; what the deployment holds is an input
LoadFromSource(c) ==
    /\ call[c].pc = "load_from_source"
    /\ LET source_type == loader.schema.source.type
           query       == GenerateQuery(loader.schema)
           module_name == SUPPORTED_SOURCES[source_type]
           begun == [call[c] EXCEPT !.source_type = source_type, !.query = query,
                                    !.used = Use(c),
                                    !.ops = Note(c, "load_from_source")]
       IN  \E deployment \in {"installed", "no_module", "no_attribute"} :
             call' = [call EXCEPT ![c] =
                CASE deployment = "no_module" ->
                       [begun EXCEPT
                          !.deployment = deployment,
                          !.pc = "done",
                          !.result = Raised(ExceptImportError(source_type, module_name,
                                        Error("ModuleNotFoundError", "No module named",
                                              <<module_name>>)))]
                  [] deployment = "no_attribute" ->
                       [begun EXCEPT
                          !.deployment = deployment,
                          !.pc = "done",
                          !.result = Raised(ExceptImportError(source_type, module_name,
                                        Error("AttributeError", "module has no attribute",
                                              <<module_name, BackendAttribute(source_type)>>)))]
                  [] OTHER -> [begun EXCEPT !.pc = "execute_query",
                                            !.deployment = deployment]]
    /\ UNCHANGED <<clock, schemaStore, cacheFiles, loader, edits>>

\* faulty variant: a query that fails is run once more before the error is
\* let through
ExecuteQuery_Retries(c) ==
    /\ call[c].pc = "execute_query"
    /\ LET module_name == SUPPORTED_SOURCES[call[c].source_type]
           invoked == [call[c] EXCEPT !.ops = Note(c, "backend_invoked"),
                                      !.invocations = @ + 1]
       IN  \/ \E t \in SourceTables :
                call' = [call EXCEPT ![c] =
                            [invoked EXCEPT !.pc = "apply_transformations",
                                            !.df = Returned(t), !.fetched = Returned(t)]]
           \/ \E e \in BackendErrors :
                call' = [call EXCEPT ![c] =
                            IF call[c].invocations = 0
                            THEN invoked
                            ELSE [invoked EXCEPT
                                    !.pc = "done",
                                    !.raisedByBackend = <<e>>,
                                    !.result = Raised(ExceptImportError(call[c].source_type,
                                                                        module_name, e))]]
    /\ UNCHANGED <<clock, schemaStore, cacheFiles, loader, edits>>

\* _load_from_source, lines 98 and 103-104: the backend runs the query and
\* returns a table or raises
ExecuteQuery(c) ==
    /\ call[c].pc = "execute_query"
    /\ LET module_name == SUPPORTED_SOURCES[call[c].source_type]
           invoked == [call[c] EXCEPT !.ops = Note(c, "backend_invoked"),
                                      !.invocations = @ + 1]
       IN  \/ \E t \in SourceTables :
                call' = [call EXCEPT ![c] =
                            [invoked EXCEPT !.pc = "apply_transformations",
                                            !.df = Returned(t), !.fetched = Returned(t)]]
           \/ \E e \in BackendErrors :
                call' = [call EXCEPT ![c] =
                            [invoked EXCEPT
                               !.pc = "done",
                               !.raisedByBackend = <<e>>,
                               !.result = Raised(ExceptImportError(call[c].source_type,
                                                                   module_name, e))]]
    /\ UNCHANGED <<clock, schemaStore, cacheFiles, loader, edits>>

\* faulty variant: the fetched table is cached before it is transformed
ApplyTransformationsStep_CacheFirst(c) ==
    /\ call[c].pc = "apply_transformations"
    /\ LET r == ApplyTransformations(loader.schema, call[c].df.table)
           w == CacheData(loader.schema, call[c].df.table, clock)
       IN  /\ cacheFiles' = IF w.ok
                            THEN [cacheFiles EXCEPT ![call[c].cache_file] = w.file]
                            ELSE cacheFiles
           /\ IF r.kind = "error"
              THEN call' = [call EXCEPT ![c].pc = "done", ![c].result = r,
                                        ![c].ops = Note(c, "transform_failed")]
              ELSE call' = [call EXCEPT ![c].pc = "cache_data", ![c].df = r,
                                        ![c].ops = Note(c, "transformed")]
    /\ UNCHANGED <<clock, schemaStore, loader, edits>>

\* load, line 37: df = self._apply_transformations(df)
ApplyTransformationsStep(c) ==
    /\ call[c].pc = "apply_transformations"
    /\ LET r == ApplyTransformations(loader.schema, call[c].df.table)
       IN  IF r.kind = "error"
           THEN call' = [call EXCEPT ![c].pc = "done", ![c].result = r,
                                     ![c].used = Use(c),
                                     ![c].ops = Note(c, "transform_failed")]
           ELSE call' = [call EXCEPT ![c].pc = "cache_data", ![c].df = r,
                                     ![c].used = Use(c),
                                     ![c].ops = Note(c, "transformed")]
    /\ UNCHANGED <<clock, schemaStore, cacheFiles, loader, edits>>

\* faulty variant: a writer that finds an artifact written since its own load
\* began leaves that artifact in place
CacheDataStep_KeepsNewer(c) ==
    /\ call[c].pc = "cache_data"
    /\ LET w    == CacheData(loader.schema, call[c].df.table, clock)
           file == cacheFiles[call[c].cache_file]
       IN  IF w.ok
           THEN /\ cacheFiles' = IF file.exists /\ file # call[c].before[call[c].cache_file]
                                 THEN cacheFiles
                                 ELSE [cacheFiles EXCEPT ![call[c].cache_file] = w.file]
                /\ call' = [call EXCEPT ![c].pc = "done", ![c].result = call[c].df,
                                        ![c].used = Use(c),
                                        ![c].touched = Touch(c, "write"),
                                        ![c].writes = @ + 1,
                                        ![c].ops = Note(c, "cache_write")]
           ELSE /\ call' = [call EXCEPT ![c] = [Raise(c, w.error) EXCEPT !.used = Use(c)]]
                /\ UNCHANGED cacheFiles
    /\ UNCHANGED <<clock, schemaStore, loader, edits>>

\* load, lines 38-40: self._cache_data(df, cache_file); return DataFrame(df)
CacheDataStep(c) ==
    /\ call[c].pc = "cache_data"
    /\ LET w == CacheData(loader.schema, call[c].df.table, clock)
       IN  IF w.ok
           THEN /\ cacheFiles' = [cacheFiles EXCEPT ![call[c].cache_file] = w.file]
                /\ call' = [call EXCEPT ![c].pc = "done", ![c].result = call[c].df,
                                        ![c].used = Use(c),
                                        ![c].touched = Touch(c, "write"),
                                        ![c].writes = @ + 1,
                                        ![c].ops = Note(c, "cache_write")]
           ELSE /\ call' = [call EXCEPT ![c] = [Raise(c, w.error) EXCEPT !.used = Use(c)]]
                /\ UNCHANGED cacheFiles
    /\ UNCHANGED <<clock, schemaStore, loader, edits>>

\* the caller takes the table or the error and is free to call again
Finish(c) ==
    /\ call[c].pc = "done"
    /\ call' = [call EXCEPT ![c] = Idle]
    /\ UNCHANGED <<clock, schemaStore, cacheFiles, loader, edits>>

(***************************************************************************)
(* The environment                                                         *)
(***************************************************************************)
\* a day passes
Tick ==
    /\ clock < MaxClock
    /\ clock' = clock + 1
    /\ UNCHANGED <<schemaStore, cacheFiles, loader, call, edits>>

\* the schema document of a dataset is replaced from outside
EditSchema(d, s) ==
    /\ edits < MaxEdits
    /\ schemaStore[SchemaPath(d)].exists
    /\ schemaStore[SchemaPath(d)] # Document(s)
    /\ schemaStore' = [schemaStore EXCEPT ![SchemaPath(d)] = Document(s)]
    /\ edits' = edits + 1
    /\ UNCHANGED <<clock, cacheFiles, loader, call>>

\* the next statement of a load call that is under way
LoadStep(c) ==
    \/ LoadSchema(c)
    \/ ValidateSourceType(c)
    \/ CachePath(c)
    \/ IsCacheValid(c)
    \/ ReadCacheStep(c)
    \/ LoadFromSource(c)
    \/ ExecuteQuery(c)
    \/ ApplyTransformationsStep(c)
    \/ CacheDataStep(c)

Step(c) ==
    \/ LoadStep(c)
    \/ Finish(c)

\* one caller at a time: load is synchronous and the calls follow one another
Next ==
    \/ \E d \in Datasets : StartLoad("c1", d)
    \/ Step("c1")
    \/ Tick
    \/ \E d \in Datasets, s \in EditChoices : EditSchema(d, s)

Spec == Init /\ [][Next]_vars

(***************************************************************************)
(* Two callers on one loader instance (two threads sharing a               *)
(* DatasetLoader), each making one load call, the calls interleaved        *)
(* statement by statement.  Both datasets have a schema document; an       *)
(* earlier load at day 0 may have left an artifact, which is a week old    *)
(* now; the clock stands still and no document is edited meanwhile.        *)
(***************************************************************************)
SalesSchema == MkSchema("mysql", DefaultDest, DefaultFreq, NoKeys, DefaultTrans)
HrSchema ==
    MkSchema("snowflake", [format |-> "csv"], [update_frequency |-> "daily"],
             [limit |-> 10],
             [transformations |-> << ConvertTimezone("signup", "EST") >>])

\* the schema document of each dataset
ConcurrentSchema(d) == IF d = "sales" THEN SalesSchema ELSE HrSchema

\* what a load of dataset d at day 0 has left in the cache
EarlierArtifact(d) ==
    LET schema == ConcurrentSchema(d)
        t      == CHOOSE t \in SourceTables :
                      ApplyTransformations(schema, t).kind = "table"
    IN  CacheData(schema, ApplyTransformations(schema, t).table, 0).file

InitConcurrent ==
    /\ clock = Week
    /\ schemaStore = [p \in SchemaPaths |->
                         IF p = SchemaPath("sales") THEN Document(SalesSchema)
                         ELSE Document(HrSchema)]
    /\ \E left \in SUBSET Datasets :
           cacheFiles = [p \in CachePaths |->
                            IF \E d \in left : p = GetCacheFilePath(ConcurrentSchema(d), d)
                            THEN LET d == CHOOSE d \in left :
                                              p = GetCacheFilePath(ConcurrentSchema(d), d)
                                 IN  EarlierArtifact(d)
                            ELSE NoFile]
    /\ loader = [schema |-> None, dataset_path |-> NoPath]
    /\ call = [c \in Callers |-> Idle]
    /\ edits = 0

NextConcurrent ==
    \E c \in Callers :
        \/ \E d \in Datasets : StartLoad(c, d)
        \/ LoadStep(c)

SpecConcurrent == InitConcurrent /\ [][NextConcurrent]_vars

(***************************************************************************)
(* _anonymize on its own: a column of one value, drawn from the short      *)
(* strings over a small alphabet that has "@" in it and from values that   *)
(* are not strings, goes through the anonymize pass of                     *)
(* _apply_transformations.                                                 *)
(***************************************************************************)
Alphabet == {"a", "b", "@"}

StringsUpTo(n) == UNION { [1..k -> Alphabet] : k \in 0..n }

AnonymizeInputs ==
    { Str(s) : s \in StringsUpTo(MaxChars) }
        \cup { Num(0), Num(7), Ts(1, "UTC"), Ts(2, "naive") }

InitAnonymize ==
    /\ clock = 0
    /\ schemaStore = [p \in SchemaPaths |-> NoDocument]
    /\ cacheFiles = [p \in CachePaths |-> NoFile]
    /\ loader = [schema |-> None, dataset_path |-> NoPath]
    /\ \E value \in AnonymizeInputs :
           call = [c \in Callers |->
                      IF c = "c1" THEN [Idle EXCEPT !.df = Returned([email |-> <<value>>])]
                      ELSE Idle]
    /\ edits = 0

\* _apply_transformations, lines 133-136: df[column] = df[column].apply(self._anonymize)
AnonymizeColumn(c) ==
    /\ call[c].pc = "idle"
    /\ call[c].df.kind = "table"
    /\ call' = [call EXCEPT ![c].pc = "done",
                            ![c].result = ApplyOne(Anonymize("email"), call[c].df),
                            ![c].ops = Note(c, "transformed")]
    /\ UNCHANGED <<clock, schemaStore, cacheFiles, loader, edits>>

NextAnonymize == AnonymizeColumn("c1")

SpecAnonymize == InitAnonymize /\ [][NextAnonymize]_vars

(***************************************************************************)
(* Vocabulary of the claims                                                *)
(***************************************************************************)
Done(c)     == call[c].pc = "done"
InCall(c)   == call[c].pc # "idle"
Failed(c)   == Done(c) /\ call[c].result.kind = "error"
Succeeded(c) == Done(c) /\ call[c].result.kind = "table"

\* the call has made its freshness decision
Judged(c) == call[c].observed # <<>>

\* the artifact the freshness decision looked at existed and was less than
\* seven days old
SawFresh(c) ==
    /\ Judged(c)
    /\ call[c].observed[1].exists
    /\ call[c].observed[1].now - call[c].observed[1].file_mtime < 7

Registered(schema) ==
    schema.source.type \in
        {"mysql", "postgres", "yahoo_finance", "bigquery", "snowflake", "databricks", "oracle"}

Weekly(schema) ==
    "update_frequency" \in DOMAIN schema /\ schema.update_frequency = "weekly"

SupportedFormat(schema) == schema.destination.format \in {"parquet", "csv"}

\* the error kinds of the error taxonomy, as the exceptions the code raises
SchemaNotFound(e, dataset) ==
    /\ e.exc = "FileNotFoundError"
    /\ e.msg = "Schema file not found"
    /\ e.arg = <<"datasets/" \o dataset \o "/schema.yaml">>

UnsupportedSourceType(e, type) ==
    e.exc = "ValueError" /\ e.msg = "Unsupported database type" /\ e.arg = <<type>>

UnsupportedCacheFormat(e, format) ==
    e.exc = "ValueError" /\ e.msg = "Unsupported cache format" /\ e.arg = <<format>>

SourceBackendUnavailable(e, type) ==
    /\ e.exc = "ImportError"
    /\ e.msg = "connector not found. Please install the library."
    /\ e.arg = <<Capitalize(type), SUPPORTED_SOURCES[type]>>

SourceOps == {"load_from_source", "backend_invoked", "transformed", "transform_failed",
              "cache_write"}
CacheOps  == {"cache_path", "cache_exists", "cache_read", "cache_write"}

(***************************************************************************)
(* C1.  Under update_frequency 'weekly', with a registered source type: a  *)
(* load that finds the cache artifact present and less than 7 days old     *)
(* takes the cache path, never enters the source path, and (the format     *)
(* being supported and the artifact being in that format) returns the      *)
(* cached table; a load that finds the artifact 7 days old or older, or    *)
(* absent, takes the source path and never reads the cache.                *)
(***************************************************************************)
C1_WeeklyFreshness ==
    \A c \in Callers :
        (Judged(c) /\ Weekly(call[c].readSchema)) =>
            LET cl   == call[c]
                file == cl.before[cl.cache_file]
            IN  IF SawFresh(c)
                THEN /\ cl.judged = "VALID"
                     /\ cl.pc \in {"read_cache", "done"}
                     /\ cl.ops \cap SourceOps = {}
                     /\ (Done(c) /\ SupportedFormat(cl.readSchema)
                             /\ file.enc = cl.readSchema.destination.format
                           => /\ cl.result.kind = "table"
                              /\ cl.result.table = Decode(file.enc, file.table)
                              /\ Did(c, "cache_read"))
                ELSE /\ cl.judged = "STALE"
                     /\ ~Did(c, "cache_read")
                     /\ cl.pc = "load_from_source" \/ Did(c, "load_from_source")
                     /\ (cl.deployment = "installed" /\ cl.pc # "execute_query"
                           => Did(c, "backend_invoked"))

\* a load under 'weekly' has returned the table of an artifact that was 6 days old
C1_Witness ==
    /\ Succeeded("c1")
    /\ Weekly(call["c1"].readSchema)
    /\ SawFresh("c1")
    /\ call["c1"].observed[1].now - call["c1"].observed[1].file_mtime = 6
    /\ Did("c1", "cache_read")

(***************************************************************************)
(* C2.  With a registered source type and an update_frequency that is not  *)
(* 'weekly' or is absent, every load enters the source path and none reads *)
(* the cache, whatever the state of the cache artifact.                    *)
(***************************************************************************)
C2_NonWeeklyAlwaysFetches ==
    \A c \in Callers :
        (Done(c) /\ call[c].readSchema # None /\ Registered(call[c].readSchema)
                 /\ ~Weekly(call[c].readSchema))
            => /\ Did(c, "load_from_source")
               /\ ~Did(c, "cache_read")

(***************************************************************************)
(* C3.  A load that fails leaves every cache artifact as it was when the   *)
(* call began and has not written the cache; this covers a failed source   *)
(* fetch and a failed transformation.                                      *)
(***************************************************************************)
C3_FailedLoadKeepsCache ==
    \A c \in Callers :
        Failed(c) => /\ cacheFiles = call[c].before
                     /\ ~Did(c, "cache_write")

\* a transformation has failed in a load that began with an artifact in place
C3_Witness ==
    /\ Failed("c1")
    /\ Did("c1", "transform_failed")
    /\ call["c1"].before[call["c1"].cache_file].exists

(***************************************************************************)
(* C4.  A load whose schema names an unregistered source type fails with   *)
(* UnsupportedSourceType naming that type, right after the schema read:    *)
(* no cache path is computed, no cache artifact is examined, read or       *)
(* written and no backend is resolved or invoked.                          *)
(***************************************************************************)
C4_UnsupportedSourceFailsFirst ==
    \A c \in Callers :
        (call[c].readSchema # None /\ ~Registered(call[c].readSchema))
            => /\ call[c].pc \in {"validate", "done"}
               /\ call[c].ops = {"schema_read"}
               /\ call[c].cache_file = NoPath
               /\ cacheFiles = call[c].before
               /\ Done(c) => /\ call[c].result.kind = "error"
                             /\ UnsupportedSourceType(call[c].result.error,
                                                      call[c].readSchema.source.type)

\* the load has failed so while a fresh artifact sits at the path of its schema
C4_Witness ==
    /\ Failed("c1")
    /\ call["c1"].readSchema # None
    /\ call["c1"].readSchema.source.type = "mongodb"
    /\ Weekly(call["c1"].readSchema)
    /\ LET file == cacheFiles[GetCacheFilePath(call["c1"].readSchema, call["c1"].arg)]
       IN  file.exists /\ clock - file.mtime < 7

(***************************************************************************)
(* C5.  A load for an identifier that has no schema document fails with    *)
(* SchemaNotFound naming the schema path and does nothing else: no cache   *)
(* path, no cache check, read or write, no source operation; the schema an *)
(* earlier load left in the loader is not used.                            *)
(***************************************************************************)
C5_MissingSchemaFails ==
    \A c \in Callers :
        (call[c].pc \notin {"idle", "load_schema"}
            /\ ~schemaStore["datasets/" \o call[c].arg \o "/schema.yaml"].exists)
            => /\ Done(c)
               /\ call[c].result.kind = "error"
               /\ SchemaNotFound(call[c].result.error, call[c].arg)
               /\ call[c].ops = {}
               /\ call[c].cache_file = NoPath
               /\ cacheFiles = call[c].before

\* the load has failed so after an earlier load left a schema in the loader
C5_Witness ==
    /\ Failed("c1")
    /\ ~schemaStore["datasets/" \o call["c1"].arg \o "/schema.yaml"].exists
    /\ loader.schema # None
    /\ \E p \in CachePaths : cacheFiles[p].exists

(***************************************************************************)
(* C6.  The declared transformations of a schema, applied to a table one   *)
(* at a time in declared order.                                            *)
(***************************************************************************)
Declared(schema) ==
    IF "transformations" \in DOMAIN schema THEN schema.transformations ELSE <<>>

RECURSIVE AppliedUpTo(_, _, _)
\* the table after the first n declared transformations
AppliedUpTo(schema, table, n) ==
    IF n = 0 THEN Returned(table)
    ELSE ApplyOne(Declared(schema)[n], AppliedUpTo(schema, table, n - 1))

TransformedTable(schema, table) == AppliedUpTo(schema, table, Len(Declared(schema)))

\* C6 as claimed: every table load returns, from the cache as well as from
\* the source, is a source table with every transformation of the schema read
\* by this call applied in declared order (as the cache format gives it back,
\* on the cache path).
C6_AlwaysTransformed ==
    \A c \in Callers :
        Succeeded(c) =>
            \E t \in SourceTables :
                LET want == TransformedTable(call[c].readSchema, t)
                IN  /\ want.kind = "table"
                    /\ call[c].result.table =
                          IF Did(c, "cache_read")
                          THEN Decode(call[c].readSchema.destination.format, want.table)
                          ELSE want.table

\* C6 as amended: a table returned on the source path is the fetched table with
\* every transformation of the schema read by this call applied in declared
\* order; a table returned on the cache path is the content of the artifact as
\* its format gives it back, and the call applies no transformation to it.
C6_TransformedOnSourcePath ==
    \A c \in Callers :
        Succeeded(c) =>
            IF Did(c, "cache_read")
            THEN /\ call[c].result.table =
                        Decode(call[c].before[call[c].cache_file].enc,
                               call[c].before[call[c].cache_file].table)
                 /\ ~Did(c, "transformed")
            ELSE /\ call[c].fetched.kind = "table"
                 /\ Did(c, "transformed")
                 /\ Returned(call[c].result.table) =
                        TransformedTable(call[c].readSchema, call[c].fetched.table)

\* a source-path load has returned a table after two transformations of one column
C6_Witness ==
    /\ Succeeded("c1")
    /\ Did("c1", "backend_invoked")
    /\ Len(Declared(call["c1"].readSchema)) = 2
    /\ Declared(call["c1"].readSchema)[1].type = "convert_timezone"
    /\ Declared(call["c1"].readSchema)[2].type = "convert_timezone"
    /\ call["c1"].result.table # call["c1"].fetched.table

(***************************************************************************)
(* C7.  An error the backend raises while it runs the query is the error   *)
(* load raises: the same exception, not wrapped and not replaced.          *)
(***************************************************************************)
C7_BackendErrorsUnchanged ==
    \A c \in Callers :
        (Done(c) /\ call[c].raisedByBackend # <<>>)
            => call[c].result = Raised(call[c].raisedByBackend[1])

(***************************************************************************)
(* C8.  When the backend module cannot be imported, or lacks the entry     *)
(* point or connector class of the naming convention, load fails with      *)
(* SourceBackendUnavailable naming the source type and the module, no      *)
(* query is executed and the cache is not written.                         *)
(***************************************************************************)
C8_UnavailableBackend ==
    \A c \in Callers :
        (Done(c) /\ call[c].deployment \in {"no_module", "no_attribute"})
            => /\ call[c].result.kind = "error"
               /\ SourceBackendUnavailable(call[c].result.error, call[c].source_type)
               /\ ~Did(c, "backend_invoked")
               /\ ~Did(c, "cache_write")
               /\ cacheFiles = call[c].before

(***************************************************************************)
(* C9.  With a destination.format that is neither 'parquet' nor 'csv', a   *)
(* load returns no table and leaves every cache artifact as it was; judged *)
(* VALID it fails with UnsupportedCacheFormat at the cache read, without   *)
(* entering the source path; judged STALE/MISSING it fails with            *)
(* UnsupportedCacheFormat at the cache write, once the fetch and the       *)
(* transformations have succeeded.                                         *)
(***************************************************************************)
C9_UnsupportedFormat ==
    \A c \in Callers :
        (call[c].readSchema # None /\ ~SupportedFormat(call[c].readSchema))
            => LET cl  == call[c]
                   fmt == cl.readSchema.destination.format
               IN  /\ cl.result.kind # "table"
                   /\ cacheFiles = cl.before
                   /\ ~Did(c, "cache_read") /\ ~Did(c, "cache_write")
                   /\ (Done(c) /\ cl.judged = "VALID")
                        => /\ cl.result.kind = "error"
                           /\ UnsupportedCacheFormat(cl.result.error, fmt)
                           /\ cl.ops \cap SourceOps = {}
                   /\ (Done(c) /\ cl.judged = "STALE" /\ Did(c, "transformed"))
                        => /\ cl.result.kind = "error"
                           /\ UnsupportedCacheFormat(cl.result.error, fmt)
                           /\ Did(c, "backend_invoked")
                   /\ cl.pc = "cache_data" => Did(c, "transformed")

\* a load has failed at the cache read of a fresh artifact
C9_Witness ==
    /\ Failed("c1")
    /\ call["c1"].readSchema # None
    /\ ~SupportedFormat(call["c1"].readSchema)
    /\ call["c1"].judged = "VALID"
    /\ SawFresh("c1")

(***************************************************************************)
(* C10.  The query is 'SELECT ' + the column names joined by ', ' +        *)
(* ' FROM ' + table, then ' ORDER BY ' + clause iff order_by is present    *)
(* (the scalar, or the sequence joined by ', '), then ' LIMIT ' + n iff    *)
(* limit is present; it depends on these four fields alone.                *)
(***************************************************************************)
ColumnNames(columns) == [i \in 1..Len(columns) |-> columns[i].name]

OrderByPart(hasOrderBy, order_by) ==
    IF ~hasOrderBy THEN ""
    ELSE " ORDER BY " \o (IF IsList(order_by) THEN Join(", ", order_by.list)
                          ELSE order_by.scalar)

LimitPart(hasLimit, limit) ==
    IF ~hasLimit THEN "" ELSE " LIMIT " \o ToString(limit)

\* the query of the claim, from the four fields
ClaimedQuery(columns, table, hasOrderBy, order_by, hasLimit, limit) ==
    ("SELECT " \o Join(", ", ColumnNames(columns)) \o " FROM " \o table)
        \o OrderByPart(hasOrderBy, order_by) \o LimitPart(hasLimit, limit)

QueryOf(schema) ==
    ClaimedQuery(schema.columns, schema.source.table,
                 "order_by" \in DOMAIN schema,
                 IF "order_by" \in DOMAIN schema THEN schema.order_by ELSE Scalar(""),
                 "limit" \in DOMAIN schema,
                 IF "limit" \in DOMAIN schema THEN schema.limit ELSE 0)

C10_QueryConstruction ==
    \A c \in Callers :
        Did(c, "load_from_source") => call[c].query = QueryOf(call[c].readSchema)

\* a query with both an ORDER BY over a sequence of two and a LIMIT was built
C10_Witness ==
    /\ Did("c1", "load_from_source")
    /\ call["c1"].query = "SELECT email, signup FROM customers ORDER BY signup, email LIMIT 10"

(***************************************************************************)
(* C11.  Cache round-trip, for the formats 'parquet' and 'csv': a load     *)
(* that fetched from the source and wrote the artifact returns the very    *)
(* table the artifact holds, stored in the declared format; a load that    *)
(* hits an artifact returns a table with the column set and the row count  *)
(* of the table stored in it.  So the two loads return tables of the same  *)
(* column set and row count.                                               *)
(***************************************************************************)
ColumnSet(table) == DOMAIN table
RowCounts(table) == { Len(table[col]) : col \in DOMAIN table }

HasAt(value) == value.kind = "str" /\ \E i \in 1..Len(value.chars) : value.chars[i] = "@"

\* out is <hash(local)>@<domain> for the cut of value at its last "@"
HashedLocalAtDomain(value, out) ==
    \E k \in 1..Len(value.chars) :
        /\ value.chars[k] = "@"
        /\ \A j \in (k + 1)..Len(value.chars) : value.chars[j] # "@"
        /\ LET local  == [i \in 1..(k - 1) |-> value.chars[i]]
               domain == [i \in 1..(Len(value.chars) - k) |-> value.chars[k + i]]
           IN  /\ out.kind = "str"
               /\ Len(out.chars) = Len(Md5Hex(local)) + 1 + Len(domain)
               /\ \A i \in 1..Len(Md5Hex(local)) : out.chars[i] = Md5Hex(local)[i]
               /\ out.chars[Len(Md5Hex(local)) + 1] = "@"
               /\ \A i \in 1..Len(domain) :
                      out.chars[Len(Md5Hex(local)) + 1 + i] = domain[i]

C12_AnonymizeRule ==
    \A c \in Callers :
        (Done(c) /\ call[c].df.kind = "table") =>
            /\ call[c].result.kind = "table"
            /\ DOMAIN call[c].result.table = {"email"}
            /\ Len(call[c].result.table.email) = 1
            /\ LET value == call[c].df.table.email[1]
                   out   == call[c].result.table.email[1]
               IN  IF HasAt(value) THEN HashedLocalAtDomain(value, out)
                   ELSE out = value

\* a value with two "@" has been anonymized: the cut is at the second one
C12_Witness ==
    \E c \in Callers :
        /\ Done(c)
        /\ call[c].df = Returned([email |-> << Str(<<"a", "@", "b", "@", "a">>) >>])
        /\ call[c].result =
               Returned([email |-> << Str(<<"a", "1", "c", "a", "@", "a">>) >>])

(***************************************************************************)
(* C13.  There is no locking between load calls.  Two concurrent calls for *)
(* the same dataset that start with a stale or missing artifact can both   *)
(* judge it STALE/MISSING, both invoke the backend and both write (the     *)
(* witness); and every write replaces whatever artifact is at the path     *)
(* with the writer's table, stamped with the time of the write, so the     *)
(* artifact left behind is the later writer's.                             *)
(***************************************************************************)
C13_LaterWriterWins ==
    [][ \A c \in Callers :
            (call[c].pc = "cache_data" /\ "cache_write" \in call'[c].ops) =>
                /\ cacheFiles'[call[c].cache_file].exists
                /\ cacheFiles'[call[c].cache_file].table = call'[c].result.table
                /\ cacheFiles'[call[c].cache_file].mtime = clock
                /\ \A p \in CachePaths \ {call[c].cache_file} :
                       cacheFiles'[p] = cacheFiles[p] ]_vars

\* both callers loaded the same dataset, both found the artifact stale or
\* missing, both fetched and both wrote; they fetched different tables, and
\* the artifact holds the table of one of them only
C13_Witness ==
    /\ call["c1"].arg = call["c2"].arg
    /\ call["c1"].cache_file = call["c2"].cache_file
    /\ \A c \in Callers :
           /\ Succeeded(c)
           /\ call[c].overlapped
           /\ call[c].judged = "STALE"
           /\ Did(c, "backend_invoked")
           /\ Did(c, "cache_write")
    /\ call["c1"].result.table # call["c2"].result.table
    /\ cacheFiles[call["c2"].cache_file].table = call["c2"].result.table

(***************************************************************************)
(* C14.  A successful source-path load restarts the freshness window.  The *)
(* write stamps the artifact with the time T of the write, so that it is   *)
(* fresh at every time before T + 7; and as long as no schema document has *)
(* been edited (the artifacts are written by load alone), a load under     *)
(* 'weekly' that makes its freshness decision before T + 7 is served from  *)
(* the cache: it neither enters the source path nor invokes the backend,   *)
(* and it returns the table of the artifact.                               *)
(***************************************************************************)
WriteStampsNow(c) ==
    (call[c].pc = "cache_data" /\ "cache_write" \in call'[c].ops) =>
        /\ cacheFiles'[call[c].cache_file].mtime = clock
        /\ \A t \in clock..(clock + 6) :
               WithinWeek(cacheFiles'[call[c].cache_file].mtime, t)

ServedInsideWindow(c) ==
    ( /\ Judged(c)
      /\ edits = 0
      /\ Weekly(call[c].readSchema)
      /\ call[c].observed[1].exists
      /\ call[c].observed[1].now < call[c].observed[1].file_mtime + 7 ) =>
        /\ call[c].judged = "VALID"
        /\ call[c].ops \cap SourceOps = {}
        /\ call[c].invocations = 0
        /\ call[c].before[call[c].cache_file].mtime = call[c].observed[1].file_mtime
        /\ cacheFiles = call[c].before
        /\ Done(c) =>
               /\ Succeeded(c)
               /\ Did(c, "cache_read")
               /\ call[c].result.table =
                      Decode(call[c].readSchema.destination.format,
                             call[c].before[call[c].cache_file].table)

C14_WindowRestarts ==
    /\ [](\A c \in Callers : ServedInsideWindow(c))
    /\ [][\A c \in Callers : WriteStampsNow(c)]_vars

\* an artifact written at day 2 or later, under a schema never edited, has
\* served a load six days after it was written
C14_Witness ==
    \E c \in Callers :
        /\ Succeeded(c)
        /\ edits = 0
        /\ Weekly(call[c].readSchema)
        /\ Did(c, "cache_read")
        /\ call[c].observed[1].file_mtime >= 2
        /\ call[c].observed[1].now = call[c].observed[1].file_mtime + 6

(***************************************************************************)
(* C15.  A cache-hit load leaves every cache artifact as it found it,      *)
(* content and modification time, and writes nothing; so reads do not      *)
(* extend the freshness window: under 'weekly', a load that makes its      *)
(* freshness decision when the artifact is 7 days old or older judges it   *)
(* STALE and does not read it.                                             *)
(***************************************************************************)
C15_ReadsLeaveArtifact ==
    \A c \in Callers :
        /\ (InCall(c) /\ call[c].judged = "VALID") =>
               /\ cacheFiles = call[c].before
               /\ call[c].writes = 0
               /\ ~Did(c, "cache_write")
        /\ ( /\ Judged(c)
             /\ Weekly(call[c].readSchema)
             /\ call[c].observed[1].exists
             /\ call[c].observed[1].now >= call[c].observed[1].file_mtime + 7 ) =>
               /\ call[c].judged = "STALE"
               /\ call[c].pc # "read_cache"
               /\ ~Did(c, "cache_read")

\* a load has been served from an artifact six days old, a day has passed
\* since, and the artifact still carries the time at which it was written:
\* it is seven days old now
C15_Witness ==
    \E c \in Callers :
        /\ Succeeded(c)
        /\ Did(c, "cache_read")
        /\ call[c].observed[1].now = call[c].observed[1].file_mtime + 6
        /\ cacheFiles[call[c].cache_file].mtime = call[c].observed[1].file_mtime
        /\ clock = cacheFiles[call[c].cache_file].mtime + 7

(***************************************************************************)
(* C16.  No retries and no mixed paths.  In one load call the backend is   *)
(* invoked at most once and the artifact is written at most once; a call   *)
(* that goes to read the cache invokes no backend and writes nothing; a    *)
(* call that invokes the backend never reads the cache; and a call that    *)
(* returns a table has either read the cache, or invoked the backend once  *)
(* and written the artifact once, never both.                              *)
(***************************************************************************)
ReadsCache(c) ==
    call[c].judged = "VALID" \/ call[c].pc = "read_cache" \/ Did(c, "cache_read")

InvokesBackend(c) == Did(c, "backend_invoked") \/ call[c].invocations > 0

C16_NoRetriesNoMixedPaths ==
    \A c \in Callers :
        InCall(c) =>
            /\ call[c].invocations <= 1
            /\ call[c].writes <= 1
            /\ Did(c, "backend_invoked") <=> call[c].invocations = 1
            /\ Did(c, "cache_write") <=> call[c].writes = 1
            /\ ReadsCache(c) =>
                   /\ ~InvokesBackend(c)
                   /\ call[c].writes = 0
                   /\ call[c].ops \cap SourceOps = {}
                   /\ cacheFiles = call[c].before
            /\ InvokesBackend(c) => ~ReadsCache(c)
            /\ call[c].writes = 1 => call[c].invocations = 1
            /\ Succeeded(c) =>
                   \/ Did(c, "cache_read") /\ call[c].invocations = 0 /\ call[c].writes = 0
                   \/ ~Did(c, "cache_read") /\ call[c].invocations = 1 /\ call[c].writes = 1

\* a load that found an artifact it judged stale has invoked the backend
\* once, replaced the artifact with one write and returned the table, without
\* reading the cache
C16_Witness ==
    \E c \in Callers :
        /\ Succeeded(c)
        /\ call[c].invocations = 1
        /\ call[c].writes = 1
        /\ ~Did(c, "cache_read")
        /\ call[c].before[call[c].cache_file].exists
        /\ cacheFiles[call[c].cache_file] # call[c].before[call[c].cache_file]

(***************************************************************************)
(* C17.  Every step of a load call works with the schema that this call    *)
(* read from the document of its own dataset when it began, and with no    *)
(* other.                                                                  *)
(***************************************************************************)
\* the schema the call has read is the document of the dataset it was called
\* for, every step so far has worked with that schema, and while the call
\* runs that schema is the one in the loader
UsesOwnSchema(c) ==
    /\ call[c].readSchema # None =>
           /\ schemaStore[SchemaPath(call[c].arg)].exists
           /\ call[c].readSchema = schemaStore[SchemaPath(call[c].arg)].doc
    /\ call[c].used \subseteq {call[c].readSchema}
    /\ call[c].used # {} => call[c].readSchema # None
    /\ (Running(c) /\ call[c].readSchema # None) => loader.schema = call[c].readSchema

\* C17 as claimed: this holds of every call, also of one that runs while a
\* call for a different dataset runs on the same loader
C17_OwnSchemaAlsoConcurrently ==
    \A c \in Callers :
        (InCall(c) /\ \A o \in Callers \ {c} : call[o].arg # call[c].arg) =>
            UsesOwnSchema(c)

\* C17, amended: it holds of every call during which no other load call ran
\* on the same loader; the schema an earlier call left in the loader is
\* replaced before any step of the call looks at it
C17_OwnSchemaWhenAlone ==
    \A c \in Callers :
        (InCall(c) /\ ~call[c].overlapped) => UsesOwnSchema(c)

\* the two callers have loaded different datasets one after the other: each
\* call has gone through its steps with its own schema, the second with the
\* schema of the first still in the loader when it began
C17_Witness ==
    /\ \A c \in Callers :
           /\ Done(c)
           /\ ~call[c].overlapped
           /\ call[c].readSchema # None
           /\ call[c].used = {call[c].readSchema}
           /\ Did(c, "load_from_source")
    /\ call["c1"].arg # call["c2"].arg
    /\ call["c1"].readSchema # call["c2"].readSchema

(***************************************************************************)
(* C18.  The transformations are applied in declared order, one entry at a *)
(* time.  An entry changes no column but the one it names, and keeps the   *)
(* columns and the rows of the table; an entry whose type is neither       *)
(* 'anonymize' nor 'convert_timezone' leaves the table as it is, so that   *)
(* the outcome of the whole pass is the outcome of the entries of known    *)
(* type alone, applied in their order.                                     *)
(***************************************************************************)
KnownType(transform) == transform.type \in {"anonymize", "convert_timezone"}

RECURSIVE KnownOnly(_, _)
\* the entries of known type applied first to last, the others skipped
KnownOnly(transforms, r) ==
    IF transforms = <<>> THEN r
    ELSE IF KnownType(Head(transforms))
    THEN KnownOnly(Tail(transforms), ApplyOne(Head(transforms), r))
    ELSE KnownOnly(Tail(transforms), r)

\* entry n, applied to the table the first n - 1 entries gave, changes its
\* named column at most
ChangesNamedColumnOnly(schema, table, n) ==
    LET entry == Declared(schema)[n]
        prev  == AppliedUpTo(schema, table, n - 1)
        next  == AppliedUpTo(schema, table, n)
    IN  prev.kind = "table" =>
            /\ ~KnownType(entry) => next = prev
            /\ next.kind = "table" =>
                   /\ DOMAIN next.table = DOMAIN prev.table
                   /\ \A col \in DOMAIN prev.table :
                          /\ Len(next.table[col]) = Len(prev.table[col])
                          /\ col # entry.params.column => next.table[col] = prev.table[col]

C18_OneColumnAtATime ==
    \A c \in Callers :
        (Did(c, "transformed") \/ Did(c, "transform_failed")) =>
            LET schema  == call[c].readSchema
                table   == call[c].fetched.table
                outcome == IF Did(c, "transformed") THEN call[c].df ELSE call[c].result
            IN  /\ outcome = KnownOnly(Declared(schema), Returned(table))
                /\ outcome = AppliedUpTo(schema, table, Len(Declared(schema)))
                /\ Did(c, "transformed") <=> outcome.kind = "table"
                /\ \A n \in 1..Len(Declared(schema)) :
                       ChangesNamedColumnOnly(schema, table, n)

\* a load whose schema declares an entry of unknown type and then an
\* anonymize entry has returned: the email column is anonymized, the other
\* column is as fetched
C18_Witness ==
    \E c \in Callers :
        /\ Succeeded(c)
        /\ Did(c, "transformed")
        /\ Len(Declared(call[c].readSchema)) = 2
        /\ ~KnownType(Declared(call[c].readSchema)[1])
        /\ KnownType(Declared(call[c].readSchema)[2])
        /\ call[c].result.table.email # call[c].fetched.table.email
        /\ call[c].result.table.signup = call[c].fetched.table.signup

(***************************************************************************)
(* C19.  The cache path is a function of the dataset identifier and of the *)
(* destination of the schema: datasets/<identifier>/<path> when the        *)
(* destination declares a path, otherwise datasets/<identifier>/           *)
(* data.parquet for the format 'parquet' and datasets/<identifier>/        *)
(* data.csv for every other format.  The path whose existence is checked,  *)
(* the path read and the path written in one load call are that path.      *)
(***************************************************************************)
ClaimedCachePath(identifier, destination) ==
    IF "path" \in DOMAIN destination
    THEN "datasets/" \o identifier \o "/" \o destination.path
    ELSE IF destination.format = "parquet"
    THEN "datasets/" \o identifier \o "/data.parquet"
    ELSE "datasets/" \o identifier \o "/data.csv"

OnePathInCall(c) ==
    /\ \A t \in call[c].touched : t[2] = call[c].cache_file
    /\ Did(c, "cache_exists") => <<"exists", call[c].cache_file>> \in call[c].touched
    /\ Did(c, "cache_read") => <<"read", call[c].cache_file>> \in call[c].touched
    /\ Did(c, "cache_write") =>
           /\ <<"write", call[c].cache_file>> \in call[c].touched
           /\ cacheFiles[call[c].cache_file].exists
           /\ \A p \in CachePaths \ {call[c].cache_file} :
                  cacheFiles[p] = call[c].before[p]

C19_CachePath ==
    \A c \in Callers :
        Did(c, "cache_path") =>
            /\ call[c].cache_file =
                   ClaimedCachePath(call[c].arg, call[c].readSchema.destination)
            /\ OnePathInCall(c)

====
